---- MODULE Spec2Model ----
(***************************************************************************)
(* Model of the persistence layer of echo: DatabaseManager                 *)
(* (src/src/echo/database/database.py) over an SQLite file, and the entity *)
(* models of src/src/echo/database/models.py.                              *)
(*                                                                         *)
(* The SQLite file and the single connection are modelled explicitly:      *)
(*   db_file         the committed contents of the file at self.db_path    *)
(*   conn            self.conn: None, or an open sqlite3 connection        *)
(*   in_transaction  the connection has an open (implicit) transaction     *)
(*   work            the database as the connection sees it: db_file plus  *)
(*                   the uncommitted changes of the open transaction       *)
(*   upserted        the package names insert_package has returned for     *)
(*   last            the last gateway call: operation, argument, the       *)
(*                   exception it raised ("" when it returned) and the     *)
(*                   value it returned (for initialize also the steps of   *)
(*                   the migration protocol it ran, in order)              *)
(*   connections     the sqlite3 connections this gateway has opened and   *)
(*                   not closed                                            *)
(*   connected       sqlite3.connect has been called by this gateway       *)
(***************************************************************************)
EXTENDS Integers, Sequences, FiniteSets, TLC

VARIABLES db_file, conn, in_transaction, work, upserted, last, connections,
          connected

vars == <<db_file, conn, in_transaction, work, upserted, last, connections,
         connected>>

----------------------------------------------------------------------------
(* Values *)

\* Python None and SQL NULL (sqlite3 maps one to the other).
None == "None"

\* Python values whose type matters to the caller.
PyNone == [type |-> "NoneType", val |-> 0]
PyInt(n) == [type |-> "int", val |-> n]
PyBool(b) == [type |-> "bool", val |-> IF b THEN 1 ELSE 0]

\* Bounds of the model.
MaxVersion == 2
MaxList == 2

Times == {1, 2}

----------------------------------------------------------------------------
(* The SQLite database *)

SevenTables ==
    {"packages", "package_dependencies", "package_tags", "usage_patterns",
     "usage_contexts", "recommendations", "installation_history"}

ManualTables ==
    <<"packages", "package_dependencies", "package_tags", "usage_patterns",
      "usage_contexts", "recommendations", "installation_history",
      "database_version">>

\* A database file that has just been created: no table at all.
EmptyDatabase ==
    [tables               |-> {},
     packages             |-> {},
     package_dependencies |-> {},
     package_tags         |-> {},
     usage_patterns       |-> {},
     usage_contexts       |-> {},
     recommendations      |-> {},
     installation_history |-> {},
     database_version     |-> {}]

\* The state of one DatabaseManager and its file, as one value.
\* `steps` lists the steps of the migration protocol a call has run so far.
State(f, c, t, w, n) ==
    [db_file |-> f, conn |-> c, in_transaction |-> t, work |-> w,
     connections |-> n, steps |-> <<>>]

Current == State(db_file, conn, in_transaction, work, connections)

\* The call runs one more step of the migration protocol.
step(s, name) == [s EXCEPT !.steps = Append(@, name)]

\* What a call yields: the state it leaves, the exception it raised ("" when
\* it returned normally) and the value it returned.
Returns(st, v) == [st |-> st, raised |-> "", ret |-> v]
Raises(st, e) == [st |-> st, raised |-> e, ret |-> PyNone]

\* sqlite3.connect on first use (the file is created empty when missing).
\* A connection opened while self.conn holds one would leave that one open.
get_connection_always_connects(s) ==
    [s EXCEPT !.conn = "open", !.work = s.db_file, !.in_transaction = FALSE,
              !.connections = @ + 1]

\* sqlite3.connect on first use (the file is created empty when missing).
get_connection(s) ==
    IF s.conn = None
    THEN [s EXCEPT !.conn = "open", !.work = s.db_file, !.in_transaction = FALSE,
                   !.connections = @ + 1]
    ELSE s

\* A return without conn.commit().
commit_omitted(s) == s

\* conn.commit(): the open transaction, if any, becomes durable.
commit(s) == [s EXCEPT !.db_file = s.work, !.in_transaction = FALSE]

\* sqlite3 (legacy transaction control) opens a transaction before the first
\* INSERT / REPLACE / UPDATE / DELETE and leaves it open until commit.
begin(s) == [s EXCEPT !.in_transaction = TRUE]

\* A DDL statement opens no transaction: outside one it is durable at once,
\* inside one it is part of it.
create_table_if_not_exists(s, t) ==
    LET w == [s.work EXCEPT !.tables = @ \cup {t}]
    IN  IF s.in_transaction
        THEN [s EXCEPT !.work = w]
        ELSE [s EXCEPT !.work = w, !.db_file = w]

\* A close() that commits the open transaction before it closes.
close_commits(s) ==
    IF s.conn # None
    THEN Returns([commit(s) EXCEPT !.conn = None, !.work = s.work,
                                   !.connections = @ - 1], PyNone)
    ELSE Returns(s, PyNone)

\* close() without its test of self.conn.
close_unguarded(s) ==
    IF s.conn # None
    THEN Returns([s EXCEPT !.conn = None, !.work = s.db_file,
                           !.in_transaction = FALSE,
                           !.connections = @ - 1], PyNone)
    ELSE Raises(s, "AttributeError")

\* Closing a connection discards its uncommitted transaction.
close(s) ==
    IF s.conn # None
    THEN Returns([s EXCEPT !.conn = None, !.work = s.db_file,
                           !.in_transaction = FALSE,
                           !.connections = @ - 1], PyNone)
    ELSE Returns(s, PyNone)

----------------------------------------------------------------------------
(* Schema migrator *)

\* What the external migration tool and the installed package can do during
\* one initialize().
ToolOutcomes ==
    {"tool_absent", "probe_fails", "probe_error", "no_migrations_dir",
     "no_changelog", "update_nonzero", "update_partial", "update_error",
     "update_ok"}

\* The outcomes in which the tool's update writes to the file.
ToolWrites == {"update_partial", "update_ok"}

\* subprocess.run(['liquibase', '--version'], check=True)
probe(o) ==
    CASE o = "tool_absent" -> "FileNotFoundError"
      [] o = "probe_fails" -> "CalledProcessError"
      [] o = "probe_error" -> "PermissionError"
      [] OTHER             -> ""

\* subprocess.run(cmd, check=True) for the update command
update(o) ==
    CASE o = "update_nonzero" -> "CalledProcessError"
      [] o = "update_partial" -> "CalledProcessError"
      [] o = "update_error"   -> "OSError"
      [] OTHER                -> ""

\* The update of the changelog applied to the file: the changelog creates the
\* seven entity tables; database_version belongs to the manual path only.
liquibase_update(d) == [d EXCEPT !.tables = @ \cup SevenTables]

\* The tool is another process writing the file: the connection, which holds
\* no transaction then, sees the result.
tool_writes(s) ==
    LET d == liquibase_update(s.db_file)
    IN  [s EXCEPT !.db_file = d, !.work = d]

\* An update that fails in the middle: the change sets the tool had applied
\* before the failing one stay in the file (here the first table).
liquibase_update_fails(d) == [d EXCEPT !.tables = @ \cup {Head(ManualTables)}]

\* What the update command leaves in the file before it exits non-zero.
failed_tool_writes(s, o) ==
    IF o = "update_partial"
    THEN LET d == liquibase_update_fails(s.db_file)
         IN  [s EXCEPT !.db_file = d, !.work = d]
    ELSE s

run_liquibase_update_propagates(s, o) ==
    LET s1 == step(s, "probe")
        s2 == step(s1, "changelog")
        s3 == step(s2, "update")
    IN  IF probe(o) # "" THEN Raises(s1, probe(o))
        ELSE IF o \in {"no_migrations_dir", "no_changelog"} THEN Returns(s2, PyBool(FALSE))
        ELSE IF update(o) # "" THEN Raises(failed_tool_writes(s3, o), update(o))
        ELSE Returns(tool_writes(s3), PyBool(TRUE))

\* The steps in the order of the code: the probe of the tool, the paths of
\* the migrations directory and of the changelog in it, the update command.
run_liquibase_update(s, o) ==
    LET s1 == step(s, "probe")
        s2 == step(s1, "changelog")
        s3 == step(s2, "update")
    IN  IF probe(o) \in {"CalledProcessError", "FileNotFoundError"}
        THEN Returns(s1, PyBool(FALSE))
        ELSE IF probe(o) # ""
        THEN Returns(s1, PyBool(FALSE))          \* except Exception
        ELSE IF o = "no_migrations_dir"
        THEN Returns(s2, PyBool(FALSE))
        ELSE IF o = "no_changelog"
        THEN Returns(s2, PyBool(FALSE))
        ELSE IF update(o) = "CalledProcessError"
        THEN Returns(failed_tool_writes(s3, o), PyBool(FALSE))
        ELSE IF update(o) # ""
        THEN Returns(s3, PyBool(FALSE))          \* except Exception
        ELSE Returns(tool_writes(s3), PyBool(TRUE))

RECURSIVE create_tables(_, _)
create_tables(s, ts) ==
    IF ts = <<>> THEN s
    ELSE create_tables(create_table_if_not_exists(s, Head(ts)), Tail(ts))

\* INSERT OR IGNORE INTO database_version: the primary key is version.
insert_or_ignore(rows, r) ==
    IF \E x \in rows : x.version = r.version THEN rows ELSE rows \cup {r}

\* The statements of _initialize_manual_schema, numbered in the order they
\* run: one CREATE TABLE per table, the INSERT of the bootstrap row, the
\* commit.  The store can fail any of them (disk full, I/O error, database
\* locked): `fault` is the number of the statement that raises, 0 for none.
CreateFaults == 1..Len(ManualTables)
InsertFault == Len(ManualTables) + 1
CommitFault == Len(ManualTables) + 2
StorageFaults == {0} \cup CreateFaults \cup {InsertFault, CommitFault}

\* The tables created before statement `fault` raises.
created_before(fault) ==
    IF fault \in CreateFaults THEN SubSeq(ManualTables, 1, fault - 1)
    ELSE ManualTables

initialize_manual_schema_swallows(s, now, fault) ==
    LET s1 == create_tables(get_connection(s), created_before(fault))
        s2 == begin(s1)
        s3 == [s2 EXCEPT !.work.database_version =
                  insert_or_ignore(@, [version |-> 1, applied_at |-> now,
                                       description |-> "Initial schema creation"])]
    IN  IF fault \in CreateFaults THEN Returns(s1, PyNone)
        ELSE IF fault = InsertFault THEN Returns(s2, PyNone)
        ELSE IF fault = CommitFault THEN Returns(s3, PyNone)
        ELSE Returns(commit(s3), PyNone)

\* No statement is guarded by try/except: the error of the failing statement
\* leaves the method at once, with what the earlier statements did.
initialize_manual_schema(s, now, fault) ==
    LET s1 == create_tables(get_connection(s), created_before(fault))
        s2 == begin(s1)
        s3 == [s2 EXCEPT !.work.database_version =
                  insert_or_ignore(@, [version |-> 1, applied_at |-> now,
                                       description |-> "Initial schema creation"])]
    IN  IF fault \in CreateFaults THEN Raises(s1, "OperationalError")
        ELSE IF fault = InsertFault THEN Raises(s2, "OperationalError")
        ELSE IF fault = CommitFault THEN Raises(s3, "OperationalError")
        ELSE Returns(commit(s3), PyNone)

initialize_tool_only(s, o, now, fault) ==
    LET r == run_liquibase_update(s, o)
    IN  IF r.raised # "" THEN r
        ELSE Returns(r.st, PyNone)

\* An initialize() that runs the manual fallback whatever the tool reported.
initialize_always_falls_back(s, o, now, fault) ==
    LET r == run_liquibase_update(s, o)
    IN  IF r.raised # "" THEN r
        ELSE initialize_manual_schema(step(r.st, "manual"), now, fault)

initialize(s, o, now, fault) ==
    LET r == run_liquibase_update(s, o)
    IN  IF r.raised # "" THEN r
        ELSE IF r.ret = PyBool(TRUE) THEN Returns(r.st, PyNone)
        ELSE initialize_manual_schema(step(r.st, "manual"), now, fault)

----------------------------------------------------------------------------
(* Generic statements *)

\* The statements callers pass to execute() in this model.
Statements(times) ==
    {[sql |-> "DELETE FROM database_version", params |-> <<>>]}
    \cup {[sql |-> "INSERT INTO database_version (version, applied_at, description) VALUES (?, ?, ?)",
           params |-> <<v, now>>] : v \in 2..MaxVersion, now \in times}

\* Statements that overwrite the metadata text of every row of a table, as a
\* caller of execute() or another writer of the file can.
MetadataStatements(texts) ==
    {[sql |-> q, params |-> <<t>>] :
        q \in {"UPDATE packages SET metadata = ?",
                "UPDATE usage_patterns SET metadata = ?",
                "UPDATE recommendations SET metadata = ?"},
        t \in texts}

\* The table a statement reads or writes.
table_of(stmt) ==
    CASE stmt.sql = "DELETE FROM database_version" -> "database_version"
      [] stmt.sql = "UPDATE packages SET metadata = ?" -> "packages"
      [] stmt.sql = "UPDATE usage_patterns SET metadata = ?" -> "usage_patterns"
      [] stmt.sql = "UPDATE recommendations SET metadata = ?" -> "recommendations"
      [] stmt.sql = "INSERT INTO database_version (version, applied_at, description) VALUES (?, ?, ?)"
            -> "database_version"
      [] stmt.sql = "INSERT INTO installation_history (package_name, operation, timestamp, success, details) VALUES (?, ?, ?, ?, ?)"
            -> "installation_history"
      [] stmt.sql = "INSERT INTO recommendations (package_name, score, reason, category, timestamp, source, metadata) VALUES (?, ?, ?, ?, ?, ?, ?)"
            -> "recommendations"

\* An id that is not fresh: the largest id of the table.
next_id_reused(rows) ==
    IF rows = {} THEN 1
    ELSE CHOOSE m \in {x.id : x \in rows} : \A x \in rows : x.id <= m

\* INTEGER PRIMARY KEY AUTOINCREMENT: one more than the largest id of the table.
next_id(rows) ==
    IF rows = {} THEN 1
    ELSE 1 + (CHOOSE m \in {x.id : x \in rows} : \A x \in rows : x.id <= m)

\* cursor.execute(query, params) of one writing statement: prepared (the table
\* must exist), then run inside the implicit transaction.
cursor_execute(s, stmt) ==
    IF table_of(stmt) \notin s.work.tables
    THEN [st |-> s, raised |-> "OperationalError"]
    ELSE
    LET s1 == begin(s)
        rows == s1.work[table_of(stmt)]
    IN  CASE table_of(stmt) = "database_version" /\ stmt.params = <<>> ->
               [st |-> [s1 EXCEPT !.work.database_version = {}], raised |-> ""]
          [] table_of(stmt) = "database_version" /\ stmt.params # <<>> ->
               IF \E x \in rows : x.version = stmt.params[1]
               THEN [st |-> s1, raised |-> "IntegrityError"]
               ELSE [st |-> [s1 EXCEPT !.work.database_version =
                                @ \cup {[version |-> stmt.params[1],
                                         applied_at |-> stmt.params[2],
                                         description |-> "migration"]}],
                     raised |-> ""]
          [] stmt.sql = "UPDATE recommendations SET metadata = ?" ->
               [st |-> [s1 EXCEPT !.work.recommendations =
                            {[x EXCEPT !.row.metadata = stmt.params[1]] : x \in rows}],
                raised |-> ""]
          [] stmt.sql \in {"UPDATE packages SET metadata = ?",
                           "UPDATE usage_patterns SET metadata = ?"} ->
               [st |-> [s1 EXCEPT !.work[table_of(stmt)] =
                            {[x EXCEPT !.metadata = stmt.params[1]] : x \in rows}],
                raised |-> ""]
          [] OTHER ->
               [st |-> [s1 EXCEPT !.work[table_of(stmt)] =
                            @ \cup {[id |-> next_id(rows), row |-> stmt.params]}],
                raised |-> ""]

execute(s, stmt) ==
    LET r == cursor_execute(get_connection(s), stmt)
    IN  IF r.raised # "" THEN Raises(r.st, r.raised)
        ELSE Returns(commit(r.st), PyNone)

\* SELECT * FROM <table>: the rows in the order the store happens to give.
RECURSIVE select_all(_)
select_all(rows) ==
    IF rows = {} THEN <<>>
    ELSE LET x == CHOOSE y \in rows : TRUE
         IN  <<x>> \o select_all(rows \ {x})

\* query("SELECT * FROM <table>"): the statement is prepared (the table must
\* exist) and every row fetched.
query(s, table) ==
    LET s1 == get_connection(s)
    IN  IF table \notin s1.work.tables THEN Raises(s1, "OperationalError")
        ELSE Returns(s1, select_all(s1.work[table]))

RECURSIVE SetMax(_)
SetMax(S) ==
    LET x == CHOOSE y \in S : TRUE
    IN  IF S = {x} THEN x
        ELSE LET m == SetMax(S \ {x}) IN IF x > m THEN x ELSE m

\* SELECT MAX(version) as version FROM database_version: always one row,
\* holding NULL when the table is empty.
select_max_version(d) ==
    IF d.database_version = {}
    THEN <<[version |-> PyNone]>>
    ELSE <<[version |-> PyInt(SetMax({x.version : x \in d.database_version}))]>>

get_database_version_propagates(s) ==
    LET s1 == get_connection(s)
    IN  IF "database_version" \notin s1.work.tables
        THEN Raises(s1, "OperationalError")
        ELSE LET result == select_max_version(s1.work)
             IN  Returns(s1, IF result # <<>> THEN result[1].version ELSE PyInt(0))

get_database_version(s) ==
    LET s1 == get_connection(s)
    IN  IF "database_version" \notin s1.work.tables
        THEN Returns(s1, PyInt(0))              \* except sqlite3.OperationalError
        ELSE LET result == select_max_version(s1.work)
             IN  Returns(s1, IF result # <<>> THEN result[1].version ELSE PyInt(0))

----------------------------------------------------------------------------
(* Entity models (models.py) and the values stored for them *)

\* data.get(key, default) on a mapping
Get(data, key, default) == IF key \in DOMAIN data THEN data[key] ELSE default

Range(seq) == {seq[i] : i \in DOMAIN seq}

\* Lists of at most MaxList elements of S.
Lists(S) == UNION {[1..n -> S] : n \in 0..MaxList}

PackageNames == {"curl", "zlib"}
DependencyNames == {"openssl", "libc"}
TagNames == {"network"}

\* The tag lists of the model: none, one tag, one tag listed twice.
TagLists == {<<>>, <<"network">>, <<"network", "network">>}

\* Python dicts used as metadata, and their JSON text.
EmptyDict == "dict()"
Dicts == {EmptyDict, "dict(k=1)"}

json_dumps(m) == IF m = EmptyDict THEN "{}" ELSE "{\"k\": 1}"

\* Texts a metadata column can hold that are no JSON document: broken
\* syntax, the empty text, brackets nested beyond the decoder's recursion
\* limit.
MalformedTexts == {"{not json", "", "[[[[[[[[..."}

\* json.loads: the dict, or the exception it raises: JSONDecodeError for text
\* that is no JSON, RecursionError for text nested too deep to decode.
json_loads(t) ==
    CASE t = "{}"           -> EmptyDict
      [] t = "{\"k\": 1}"   -> "dict(k=1)"
      [] t = "[[[[[[[[..."  -> "RecursionError"
      [] OTHER              -> "JSONDecodeError"

\* datetime values, the text sqlite3's adapter stores for them and what its
\* converter for TIMESTAMP columns rebuilds from it.
adapt_datetime(dt) ==
    IF dt = None THEN None ELSE "2024-01-01 10:00:00"

convert_timestamp(text) ==
    IF text = None THEN None ELSE "datetime(2024, 1, 1, 10, 0)"

Package(name, version, description, installed_date, source, size, dependencies, tags, metadata) ==
    [name |-> name, version |-> version, description |-> description,
     installed_date |-> installed_date, source |-> source, size |-> size,
     dependencies |-> dependencies, tags |-> tags, metadata |-> metadata]

\* Package objects callers hand over: a bare one (only the mandatory fields,
\* the defaults of the dataclass elsewhere) and a full one, each with every
\* list of dependencies up to MaxList (duplicates included) and every tag list.
Packages(names) ==
    {Package(n, "1.0.0", None, None, None, None, d, t, EmptyDict) :
        n \in names, d \in Lists(DependencyNames), t \in TagLists}
    \cup
    {Package(n, "1.1.0", "a package", "datetime(2024, 1, 1, 10, 0)", "apt", "1024",
             d, t, "dict(k=1)") :
        n \in names, d \in Lists(DependencyNames), t \in TagLists}

\* A few of them: a bare one without children, a full one with one dependency
\* and one tag.
FewPackages(names) ==
    {p \in Packages(names) :
        \/ p.version = "1.0.0" /\ p.dependencies = <<>> /\ p.tags = <<>>
        \/ p.version = "1.1.0" /\ p.dependencies = <<"openssl">>
                               /\ p.tags = <<"network">>}

\* Package.to_dict
Package_to_dict(p) ==
    [name |-> p.name, version |-> p.version, description |-> p.description,
     installed_date |-> p.installed_date, source |-> p.source, size |-> p.size,
     dependencies |-> p.dependencies, tags |-> p.tags, metadata |-> p.metadata]

\* Package.from_dict, on the mapping a read builds (dependencies and tags are
\* the values of the child rows, kept here as sets).
Package_from_dict(data) ==
    Package(data["name"], data["version"], Get(data, "description", None),
            Get(data, "installed_date", None), Get(data, "source", None),
            Get(data, "size", None), Get(data, "dependencies", {}),
            Get(data, "tags", {}), Get(data, "metadata", EmptyDict))

----------------------------------------------------------------------------
(* Storage gateway: packages *)

\* INSERT OR REPLACE by primary key `key`.
insert_replace_only(rows, key, r) == rows \cup {r}

\* A REPLACE that removes the old row and inserts none.
replace_deletes_only(rows, key, r) == {x \in rows : x[key] # r[key]}

insert_or_replace(rows, key, r) ==
    {x \in rows : x[key] # r[key]} \cup {r}

\* DELETE FROM <child table> WHERE package_name = ?
delete_all_rows(rows, name) == {}

delete_where_package_name(rows, name) ==
    {x \in rows : x.package_name # name}

\* for v in values: INSERT INTO <child table> (package_name, <col>): stops at
\* the first row that violates the primary key (package_name, <col>).
RECURSIVE insert_children(_, _, _)
insert_children(rows, name, values) ==
    IF values = <<>> THEN [rows |-> rows, raised |-> ""]
    ELSE LET r == [package_name |-> name, value |-> Head(values)]
         IN  IF r \in rows THEN [rows |-> rows, raised |-> "IntegrityError"]
             ELSE insert_children(rows \cup {r}, name, Tail(values))

\* The "if <list>: delete old rows, insert new rows" block of one child table.
replace_children(s, table, name, values) ==
    IF values = <<>> THEN [st |-> s, raised |-> ""]
    ELSE IF table \notin s.work.tables THEN [st |-> s, raised |-> "OperationalError"]
    ELSE LET ins == insert_children(
                        delete_where_package_name(s.work[table], name), name, values)
         IN  [st |-> [s EXCEPT !.work[table] = ins.rows], raised |-> ins.raised]

\* json.dumps(metadata) if metadata else None
metadata_str(metadata) ==
    IF metadata \in {None, EmptyDict} THEN None ELSE json_dumps(metadata)

\* An upsert that undoes its statements (conn.rollback()) when a child insert
\* fails.
insert_package_rolls_back(s, package) ==
    LET package_dict == Package_to_dict(package)
        s1 == get_connection(s)
        row == [name           |-> package_dict["name"],
                version        |-> package_dict["version"],
                description    |-> Get(package_dict, "description", None),
                installed_date |-> adapt_datetime(Get(package_dict, "installed_date", None)),
                source         |-> Get(package_dict, "source", None),
                size           |-> Get(package_dict, "size", None),
                metadata       |-> metadata_str(Get(package_dict, "metadata", None))]
    IN  IF "packages" \notin s1.work.tables THEN Raises(s1, "OperationalError")
        ELSE
        LET s2 == [begin(s1) EXCEPT !.work.packages = insert_or_replace(@, "name", row)]
            d  == replace_children(s2, "package_dependencies", package_dict["name"],
                                   Get(package_dict, "dependencies", <<>>))
        IN  IF d.raised # "" THEN Raises([d.st EXCEPT !.work = d.st.db_file,
                                                     !.in_transaction = FALSE], d.raised)
            ELSE
            LET t == replace_children(d.st, "package_tags", package_dict["name"],
                                      Get(package_dict, "tags", <<>>))
            IN  IF t.raised # "" THEN Raises([t.st EXCEPT !.work = t.st.db_file,
                                                         !.in_transaction = FALSE],
                                             t.raised)
                ELSE Returns(commit(t.st), PyNone)

insert_package(s, package) ==
    LET package_dict == Package_to_dict(package)
        s1 == get_connection(s)
        row == [name           |-> package_dict["name"],
                version        |-> package_dict["version"],
                description    |-> Get(package_dict, "description", None),
                installed_date |-> adapt_datetime(Get(package_dict, "installed_date", None)),
                source         |-> Get(package_dict, "source", None),
                size           |-> Get(package_dict, "size", None),
                metadata       |-> metadata_str(Get(package_dict, "metadata", None))]
    IN  IF "packages" \notin s1.work.tables THEN Raises(s1, "OperationalError")
        ELSE
        LET s2 == [begin(s1) EXCEPT !.work.packages = insert_or_replace(@, "name", row)]
            d  == replace_children(s2, "package_dependencies", package_dict["name"],
                                   Get(package_dict, "dependencies", <<>>))
        IN  IF d.raised # "" THEN Raises(d.st, d.raised)
            ELSE
            LET t == replace_children(d.st, "package_tags", package_dict["name"],
                                      Get(package_dict, "tags", <<>>))
            IN  IF t.raised # "" THEN Raises(t.st, t.raised)
                ELSE Returns(commit(t.st), PyNone)

\* The "if row.get('metadata'): try json.loads except JSONDecodeError: {}" block.
decode_metadata(text) ==
    IF text \in {None, ""} THEN text
    ELSE IF json_loads(text) = "JSONDecodeError" THEN EmptyDict
    ELSE json_loads(text)

\* The exception of json.loads that the block does not catch ("" when none).
decode_raises(text) ==
    IF text \in {None, ""} THEN ""
    ELSE IF json_loads(text) = "RecursionError" THEN "RecursionError"
    ELSE ""

\* The loop of a read over its rows: for each row the metadata is decoded,
\* then the child tables are queried; the first exception ends the read.
RECURSIVE rows_raise(_, _)
rows_raise(texts, child_missing) ==
    IF texts = <<>> THEN ""
    ELSE IF decode_raises(Head(texts)) # "" THEN decode_raises(Head(texts))
    ELSE IF child_missing THEN "OperationalError"
    ELSE rows_raise(Tail(texts), child_missing)

child_values(d, table, name) ==
    {x.value : x \in {y \in d[table] : y.package_name = name}}

\* The mapping a read builds for one packages row before Package.from_dict.
package_row_dict(d, row) ==
    [name |-> row.name, version |-> row.version, description |-> row.description,
     installed_date |-> convert_timestamp(row.installed_date),
     source |-> row.source, size |-> row.size,
     metadata |-> decode_metadata(row.metadata),
     dependencies |-> child_values(d, "package_dependencies", row.name),
     tags |-> child_values(d, "package_tags", row.name)]

\* The child tables a read of a packages row queries.
ChildTables == {"package_dependencies", "package_tags"}

\* Returns the Package, or None when no row has the name.
get_package_by_name(s, name) ==
    LET s1 == get_connection(s)
        rows == {x \in s1.work.packages : x.name = name}
    IN  IF "packages" \notin s1.work.tables THEN Raises(s1, "OperationalError")
        ELSE IF rows = {} THEN Returns(s1, PyNone)
        ELSE LET row == CHOOSE x \in rows : TRUE
                 fails == rows_raise(<<row.metadata>>,
                                     ~(ChildTables \subseteq s1.work.tables))
             IN  IF fails # "" THEN Raises(s1, fails)
                 ELSE Returns(s1, Package_from_dict(package_row_dict(s1.work, row)))

get_installed_packages(s) ==
    LET s1 == get_connection(s)
        package_rows == select_all(s1.work.packages)
        fails == rows_raise([i \in DOMAIN package_rows |-> package_rows[i].metadata],
                            ~(ChildTables \subseteq s1.work.tables))
    IN  IF "packages" \notin s1.work.tables THEN Raises(s1, "OperationalError")
        ELSE IF fails # "" THEN Raises(s1, fails)
        ELSE Returns(s1, [i \in DOMAIN package_rows |->
                             Package_from_dict(package_row_dict(s1.work, package_rows[i]))])

----------------------------------------------------------------------------
(* Storage gateway: usage patterns *)

ContextNames == {"development", "production"}

UsagePattern(package_name, frequency, last_used, usage_contexts, importance_score, metadata) ==
    [package_name |-> package_name, frequency |-> frequency,
     last_used |-> last_used, usage_contexts |-> usage_contexts,
     importance_score |-> importance_score, metadata |-> metadata]

\* UsagePattern objects callers hand over, with every list of contexts up to
\* MaxList.
UsagePatterns(names) ==
    {UsagePattern(n, 10, "datetime(2024, 1, 1, 10, 0)", c, None, EmptyDict) :
        n \in names, c \in Lists(ContextNames)}
    \cup
    {UsagePattern(n, 20, "datetime(2024, 1, 1, 10, 0)", c, "0.75", "dict(k=1)") :
        n \in names, c \in Lists(ContextNames)}

\* UsagePattern.to_dict
UsagePattern_to_dict(u) ==
    [package_name |-> u.package_name, frequency |-> u.frequency,
     last_used |-> u.last_used, usage_contexts |-> u.usage_contexts,
     importance_score |-> u.importance_score, metadata |-> u.metadata]

\* UsagePattern.from_dict, on the mapping a read builds.
UsagePattern_from_dict(data) ==
    UsagePattern(data["package_name"], data["frequency"], data["last_used"],
                 Get(data, "usage_contexts", {}),
                 Get(data, "importance_score", None),
                 Get(data, "metadata", EmptyDict))

update_usage_pattern(s, usage, now) ==
    LET usage_dict == UsagePattern_to_dict(usage)
        s1 == get_connection(s)
        row == [package_name     |-> usage_dict["package_name"],
                frequency        |-> usage_dict["frequency"],
                last_used        |-> adapt_datetime(Get(usage_dict, "last_used", now)),
                importance_score |-> Get(usage_dict, "importance_score", None),
                metadata         |-> metadata_str(Get(usage_dict, "metadata", None))]
    IN  IF "usage_patterns" \notin s1.work.tables THEN Raises(s1, "OperationalError")
        ELSE
        LET s2 == [begin(s1) EXCEPT !.work.usage_patterns =
                       insert_or_replace(@, "package_name", row)]
            c  == replace_children(s2, "usage_contexts", usage_dict["package_name"],
                                   Get(usage_dict, "usage_contexts", <<>>))
        IN  IF c.raised # "" THEN Raises(c.st, c.raised)
            ELSE Returns(commit(c.st), PyNone)

\* The mapping a read builds for one usage_patterns row.
usage_row_dict(d, row) ==
    [package_name |-> row.package_name, frequency |-> row.frequency,
     last_used |-> convert_timestamp(row.last_used),
     importance_score |-> row.importance_score,
     metadata |-> decode_metadata(row.metadata),
     usage_contexts |-> child_values(d, "usage_contexts", row.package_name)]

\* ORDER BY frequency ASC, the mistaken direction.
RECURSIVE order_by_frequency_asc(_)
order_by_frequency_asc(rows) ==
    IF rows = {} THEN <<>>
    ELSE LET low == CHOOSE x \in rows : \A y \in rows : x.frequency <= y.frequency
         IN  <<low>> \o order_by_frequency_asc(rows \ {low})

\* SELECT ... ORDER BY frequency DESC: the rows, largest frequency first (rows
\* of equal frequency in the order the store happens to give).
RECURSIVE order_by_frequency_desc(_)
order_by_frequency_desc(rows) ==
    IF rows = {} THEN <<>>
    ELSE LET top == CHOOSE x \in rows : \A y \in rows : y.frequency <= x.frequency
         IN  <<top>> \o order_by_frequency_desc(rows \ {top})

get_usage_patterns(s) ==
    LET s1 == get_connection(s)
        pattern_rows == order_by_frequency_desc(s1.work.usage_patterns)
        fails == rows_raise([i \in DOMAIN pattern_rows |-> pattern_rows[i].metadata],
                            "usage_contexts" \notin s1.work.tables)
    IN  IF "usage_patterns" \notin s1.work.tables THEN Raises(s1, "OperationalError")
        ELSE IF fails # "" THEN Raises(s1, fails)
        ELSE Returns(s1, [i \in DOMAIN pattern_rows |->
                             UsagePattern_from_dict(usage_row_dict(s1.work, pattern_rows[i]))])

----------------------------------------------------------------------------
(* Storage gateway: recommendations and installation history *)

MaxLog == 2

Recommendation(package_name, score, reason, category, timestamp, source, metadata) ==
    [package_name |-> package_name, score |-> score, reason |-> reason,
     category |-> category, timestamp |-> timestamp, source |-> source,
     metadata |-> metadata]

Recommendations(names) ==
    {Recommendation(n, "0.95", "Test recommendation", "development", t, src, m) :
        n \in names, t \in Times, src \in {"ai", "test"}, m \in Dicts}

\* Recommendation.to_dict
Recommendation_to_dict(r) ==
    [package_name |-> r.package_name, score |-> r.score, reason |-> r.reason,
     category |-> r.category, timestamp |-> r.timestamp, source |-> r.source,
     metadata |-> r.metadata]

add_recommendation(s, recommendation, now) ==
    LET rec_dict == Recommendation_to_dict(recommendation)
        stmt == [sql |-> "INSERT INTO recommendations (package_name, score, reason, category, timestamp, source, metadata) VALUES (?, ?, ?, ?, ?, ?, ?)",
                 params |-> [package_name |-> rec_dict["package_name"],
                             score        |-> rec_dict["score"],
                             reason       |-> Get(rec_dict, "reason", None),
                             category     |-> Get(rec_dict, "category", "general"),
                             timestamp    |-> Get(rec_dict, "timestamp", now),
                             source       |-> Get(rec_dict, "source", "unknown"),
                             metadata     |-> metadata_str(Get(rec_dict, "metadata", None))]]
        r == cursor_execute(get_connection(s), stmt)
    IN  IF r.raised # "" THEN Raises(r.st, r.raised)
        ELSE Returns(commit(r.st), PyNone)

InstallationRecord(package_name, operation, timestamp, success, details) ==
    [package_name |-> package_name, operation |-> operation,
     timestamp |-> timestamp, success |-> success, details |-> details]

InstallationRecords(names) ==
    {InstallationRecord(n, op, t, ok, None) :
        n \in names, op \in {"install"}, t \in Times, ok \in BOOLEAN}

\* InstallationRecord.to_dict
InstallationRecord_to_dict(r) ==
    [package_name |-> r.package_name, operation |-> r.operation,
     timestamp |-> r.timestamp, success |-> r.success, details |-> r.details]

\* sqlite3 stores a bool as the integer 1 or 0.
adapt_bool(b) == IF b THEN 1 ELSE 0

record_installation(s, record, now) ==
    LET record_dict == InstallationRecord_to_dict(record)
    IN  execute(s,
            [sql |-> "INSERT INTO installation_history (package_name, operation, timestamp, success, details) VALUES (?, ?, ?, ?, ?)",
             params |-> [package_name |-> record_dict["package_name"],
                         operation    |-> record_dict["operation"],
                         timestamp    |-> Get(record_dict, "timestamp", now),
                         success      |-> adapt_bool(record_dict["success"]),
                         details      |-> Get(record_dict, "details", None)]])

\* Recommendation.from_dict, on the mapping a read builds.
Recommendation_from_dict(data) ==
    Recommendation(data["package_name"], data["score"], data["reason"],
                   data["category"], data["timestamp"], data["source"],
                   Get(data, "metadata", EmptyDict))

\* InstallationRecord.from_dict, on the mapping a read builds.
InstallationRecord_from_dict(data) ==
    InstallationRecord(data["package_name"], data["operation"],
                       data["timestamp"], data["success"],
                       Get(data, "details", None))

\* The values callers pass as limit, and as source or package name filter
\* (None is the default of the parameter: no filter).
Limits == 0..MaxLog
SourceFilters == {None, "", "ai", "test"}
PackageFilters == {None, ""} \cup PackageNames

\* WHERE <column> = ?
where_equals(rows, column, value) == {x \in rows : x.row[column] = value}

\* ORDER BY timestamp DESC: the rows, latest timestamp first (rows of equal
\* timestamp in the order the store happens to give).  The text stored for a
\* datetime sorts as the datetimes do.
RECURSIVE order_by_timestamp_desc(_)
order_by_timestamp_desc(rows) ==
    IF rows = {} THEN <<>>
    ELSE LET top == CHOOSE x \in rows :
                        \A y \in rows : y.row.timestamp <= x.row.timestamp
         IN  <<top>> \o order_by_timestamp_desc(rows \ {top})

\* LIMIT ? dropped from the query.
limit_ignored(seq, limit) == seq

\* LIMIT ?: the first `limit` rows; SQLite takes a negative limit as none.
limit_rows(seq, limit) ==
    IF limit < 0 \/ limit >= Len(seq) THEN seq ELSE SubSeq(seq, 1, limit)

\* The mapping a read builds for one recommendations row.
recommendation_row_dict(x) ==
    [id |-> x.id, package_name |-> x.row.package_name, score |-> x.row.score,
     reason |-> x.row.reason, category |-> x.row.category,
     timestamp |-> x.row.timestamp, source |-> x.row.source,
     metadata |-> decode_metadata(x.row.metadata)]

\* The filter applied "if source is not None".
get_recommendations_filters_empty(s, limit, source) ==
    LET s1 == get_connection(s)
        selected == IF source # None
                    THEN where_equals(s1.work.recommendations, "source", source)
                    ELSE s1.work.recommendations
        recommendation_rows == limit_rows(order_by_timestamp_desc(selected), limit)
        fails == rows_raise([i \in DOMAIN recommendation_rows |->
                                recommendation_rows[i].row.metadata], FALSE)
    IN  IF "recommendations" \notin s1.work.tables
        THEN Raises(s1, "OperationalError")
        ELSE IF fails # "" THEN Raises(s1, fails)
        ELSE Returns(s1, [i \in DOMAIN recommendation_rows |->
                 Recommendation_from_dict(recommendation_row_dict(recommendation_rows[i]))])

\* "if source:" holds for a non-empty string only.
get_recommendations(s, limit, source) ==
    LET s1 == get_connection(s)
        selected == IF source \notin {None, ""}
                    THEN where_equals(s1.work.recommendations, "source", source)
                    ELSE s1.work.recommendations
        recommendation_rows == limit_rows(order_by_timestamp_desc(selected), limit)
        fails == rows_raise([i \in DOMAIN recommendation_rows |->
                                recommendation_rows[i].row.metadata], FALSE)
    IN  IF "recommendations" \notin s1.work.tables
        THEN Raises(s1, "OperationalError")
        ELSE IF fails # "" THEN Raises(s1, fails)
        ELSE Returns(s1, [i \in DOMAIN recommendation_rows |->
                 Recommendation_from_dict(recommendation_row_dict(recommendation_rows[i]))])

\* The mapping a read builds for one installation_history row (success is
\* the stored integer: no converter is registered for BOOLEAN).
history_row_dict(x) ==
    [id |-> x.id, package_name |-> x.row.package_name,
     operation |-> x.row.operation, timestamp |-> x.row.timestamp,
     success |-> x.row.success, details |-> x.row.details]

\* "if package_name:" holds for a non-empty string only.
get_installation_history(s, limit, package_name) ==
    LET s1 == get_connection(s)
        selected == IF package_name \notin {None, ""}
                    THEN where_equals(s1.work.installation_history,
                                      "package_name", package_name)
                    ELSE s1.work.installation_history
        history_rows == limit_rows(order_by_timestamp_desc(selected), limit)
    IN  IF "installation_history" \notin s1.work.tables
        THEN Raises(s1, "OperationalError")
        ELSE Returns(s1, [i \in DOMAIN history_rows |->
                 InstallationRecord_from_dict(history_row_dict(history_rows[i]))])

----------------------------------------------------------------------------
(* Deserialization of mappings (models.py) *)

EntityClasses == {"Package", "UsagePattern", "Recommendation", "InstallationRecord"}

\* Every key from_dict reads, subscripted or not.
AllFields(cls) ==
    CASE cls = "Package" ->
           <<"name", "version", "description", "installed_date", "source",
             "size", "dependencies", "tags", "metadata">>
      [] cls = "UsagePattern" ->
           <<"package_name", "frequency", "last_used", "usage_contexts",
             "importance_score", "metadata">>
      [] cls = "Recommendation" ->
           <<"package_name", "score", "reason", "category", "timestamp",
             "source", "metadata">>
      [] cls = "InstallationRecord" ->
           <<"package_name", "operation", "timestamp", "success", "details">>

\* Every key read with data[key], none with data.get.
SubscriptedEveryKey(cls) == AllFields(cls)

\* The keys from_dict reads with data[key], in the order it reads them
\* (the others are read with data.get).
Subscripted(cls) ==
    CASE cls = "Package" -> <<"name", "version">>
      [] cls = "UsagePattern" -> <<"package_name", "frequency", "last_used">>
      [] cls = "Recommendation" ->
           <<"package_name", "score", "reason", "category", "timestamp", "source">>
      [] cls = "InstallationRecord" ->
           <<"package_name", "operation", "timestamp", "success">>

\* A complete mapping of each class: to_dict of an entity.
FullMapping(cls) ==
    CASE cls = "Package" ->
           Package_to_dict(Package("curl", "1.1.0", "a package",
                                   "datetime(2024, 1, 1, 10, 0)", "apt", "1024",
                                   <<"openssl">>, <<"network">>, "dict(k=1)"))
      [] cls = "UsagePattern" ->
           UsagePattern_to_dict(UsagePattern("curl", 20, "datetime(2024, 1, 1, 10, 0)",
                                             <<"development">>, "0.75", "dict(k=1)"))
      [] cls = "Recommendation" ->
           Recommendation_to_dict(Recommendation("curl", "0.95", "Test recommendation",
                                                 "development", 1, "ai", "dict(k=1)"))
      [] cls = "InstallationRecord" ->
           InstallationRecord_to_dict(InstallationRecord("curl", "install", 1, TRUE,
                                                         "details"))

\* The mappings callers hand to from_dict: a complete one with any of its
\* keys left out.
Mappings(cls) ==
    {[k \in K |-> FullMapping(cls)[k]] : K \in SUBSET Range(AllFields(cls))}

\* The first of `keys` that `data` lacks, None when it has them all.
RECURSIVE first_missing(_, _)
first_missing(data, keys) ==
    IF keys = <<>> THEN None
    ELSE IF Head(keys) \notin DOMAIN data THEN Head(keys)
    ELSE first_missing(data, Tail(keys))

\* cls.from_dict(data): data[key] raises KeyError(key) for the first
\* subscripted key the mapping lacks; otherwise the entity is built.
from_dict(cls, data) ==
    LET missing == first_missing(data, Subscripted(cls))
    IN  IF missing # None
        THEN [raised |-> "KeyError", args |-> missing, ret |-> PyNone]
        ELSE [raised |-> "", args |-> None,
              ret |-> CASE cls = "Package" -> Package_from_dict(data)
                        [] cls = "UsagePattern" -> UsagePattern_from_dict(data)
                        [] cls = "Recommendation" -> Recommendation_from_dict(data)
                        [] cls = "InstallationRecord" ->
                               InstallationRecord_from_dict(data)]

----------------------------------------------------------------------------
(* The state machine *)

NoArg == [none |-> TRUE]

Init ==
    /\ db_file = EmptyDatabase
    /\ conn = None
    /\ in_transaction = FALSE
    /\ work = EmptyDatabase
    /\ upserted = {}
    /\ last = [op |-> "__init__", arg |-> NoArg, raised |-> "", ret |-> PyNone]
    /\ connections = 0
    /\ connected = FALSE

\* What a call that yields r leaves behind.  `connected` records that
\* sqlite3.connect has been called by this gateway at some time.
Effect(r) ==
    /\ db_file' = r.st.db_file
    /\ conn' = r.st.conn
    /\ in_transaction' = r.st.in_transaction
    /\ work' = r.st.work
    /\ connections' = r.st.connections
    /\ connected' = (connected \/ r.st.conn # None)

\* A call of `op` with `arg` that yields r.
Call(op, arg, r) ==
    /\ Effect(r)
    /\ last' = [op |-> op, arg |-> arg, raised |-> r.raised, ret |-> r.ret]

\* The tool can update the file only while the gateway's connection holds no
\* write transaction on it (SQLite allows one writer).  The argument recorded
\* for the call says whether the store was fresh (a file without any table).
\* A fault of the store matters only when the manual fallback runs.
Initialize(outcomes, times, faults) ==
    \E o \in outcomes, now \in times, fault \in faults :
        /\ (o \in ToolWrites => ~in_transaction)
        /\ (o = "update_ok" => fault = 0)
        /\ LET r == initialize(Current, o, now, fault)
           IN  /\ Effect(r)
               /\ last' = [op |-> "initialize",
                           arg |-> [tool |-> o, fresh |-> db_file = EmptyDatabase,
                                    fault |-> fault],
                           raised |-> r.raised, ret |-> r.ret,
                           steps |-> r.st.steps]
        /\ UNCHANGED upserted

Execute(statements) ==
    \E stmt \in statements :
        /\ Call("execute", stmt, execute(Current, stmt))
        /\ UNCHANGED upserted

GetDatabaseVersion ==
    /\ Call("get_database_version", NoArg, get_database_version(Current))
    /\ UNCHANGED upserted

Close ==
    /\ Call("close", NoArg, close(Current))
    /\ UNCHANGED upserted

InsertPackage(packages) ==
    \E p \in packages :
        LET r == insert_package(Current, p)
        IN  /\ Call("insert_package", p, r)
            /\ upserted' = IF r.raised = "" THEN upserted \cup {p.name} ELSE upserted

GetPackageByName(names) ==
    \E n \in names :
        /\ Call("get_package_by_name", [name |-> n], get_package_by_name(Current, n))
        /\ UNCHANGED upserted

GetInstalledPackages ==
    /\ Call("get_installed_packages", NoArg, get_installed_packages(Current))
    /\ UNCHANGED upserted

UpdateUsagePattern(patterns) ==
    \E u \in patterns, now \in Times :
        /\ Call("update_usage_pattern", u, update_usage_pattern(Current, u, now))
        /\ UNCHANGED upserted

GetUsagePatterns ==
    /\ Call("get_usage_patterns", NoArg, get_usage_patterns(Current))
    /\ UNCHANGED upserted

\* The logs grow without limit in the program; the model stops at MaxLog rows.
AddRecommendation(recommendations) ==
    \E rec \in recommendations, now \in Times :
        /\ Cardinality(work.recommendations) < MaxLog
        /\ Call("add_recommendation", rec, add_recommendation(Current, rec, now))
        /\ UNCHANGED upserted

RecordInstallation(records) ==
    \E rec \in records, now \in Times :
        /\ Cardinality(work.installation_history) < MaxLog
        /\ Call("record_installation", rec, record_installation(Current, rec, now))
        /\ UNCHANGED upserted

GetRecommendations(limits, sources) ==
    \E limit \in limits, source \in sources :
        /\ Call("get_recommendations", [limit |-> limit, source |-> source],
                get_recommendations(Current, limit, source))
        /\ UNCHANGED upserted

GetInstallationHistory(limits, names) ==
    \E limit \in limits, package_name \in names :
        /\ Call("get_installation_history",
                [limit |-> limit, package_name |-> package_name],
                get_installation_history(Current, limit, package_name))
        /\ UNCHANGED upserted

\* from_dict is a class method on a mapping: no gateway state is involved.
FromDict(classes) ==
    \E cls \in classes : \E data \in Mappings(cls) :
        LET r == from_dict(cls, data)
        IN  /\ last' = [op |-> "from_dict", arg |-> [cls |-> cls, data |-> data],
                        raised |-> r.raised, ret |-> r.ret, args |-> r.args]
            /\ UNCHANGED <<db_file, conn, in_transaction, work, upserted, connections,
                         connected>>

\* The gateway with every operation and every input of the model.
Next ==
    \/ Initialize(ToolOutcomes, Times, StorageFaults)
    \/ Execute(Statements(Times) \cup MetadataStatements(MalformedTexts))
    \/ GetDatabaseVersion
    \/ Close
    \/ InsertPackage(Packages(PackageNames))
    \/ GetPackageByName(PackageNames)
    \/ GetInstalledPackages
    \/ UpdateUsagePattern(UsagePatterns(PackageNames))
    \/ GetUsagePatterns
    \/ AddRecommendation(Recommendations(PackageNames))
    \/ RecordInstallation(InstallationRecords(PackageNames))
    \/ GetRecommendations(Limits, SourceFilters)
    \/ GetInstallationHistory(Limits, PackageFilters)
    \/ FromDict(EntityClasses)

Spec == Init /\ [][Next]_vars

\* The specifications below are Spec restricted to the operations and inputs
\* one group of properties is about: every behaviour of theirs is one of Spec.

\* Schema lifecycle: every tool outcome, the version table, a few packages.
NextSchema ==
    \/ Initialize(ToolOutcomes, Times, {0})
    \/ Execute(Statements(Times))
    \/ GetDatabaseVersion
    \/ Close
    \/ InsertPackage(FewPackages({"curl"}))

SpecSchema == Init /\ [][NextSchema]_vars

\* Initialization on a store that can fail: every tool outcome, a fault at
\* every statement of the manual fallback, a package upsert that succeeds and
\* one that fails and leaves its transaction open.
NextInit ==
    \/ Initialize(ToolOutcomes, {1}, StorageFaults)
    \/ Close
    \/ InsertPackage({p \in Packages({"curl"}) :
                         /\ p.version = "1.0.0"
                         /\ p.dependencies \in {<<"libc">>, <<"libc", "libc">>}
                         /\ p.tags = <<>>})

SpecInit == Init /\ [][NextInit]_vars

\* Packages: either migration path, every package of the model under one name.
NextPackages ==
    \/ Initialize({"tool_absent", "update_ok"}, {1}, {0})
    \/ Close
    \/ InsertPackage(Packages({"curl"}))
    \/ GetPackageByName({"curl"})
    \/ GetInstalledPackages

SpecPackages == Init /\ [][NextPackages]_vars

\* Usage patterns: every pattern of the model under one name and a few under
\* another, on a store that holds packages or not.
NextUsage ==
    \/ Initialize({"tool_absent", "update_ok"}, {1}, {0})
    \/ Close
    \/ InsertPackage(FewPackages({"curl"}))
    \/ UpdateUsagePattern(UsagePatterns({"curl"})
                          \cup {u \in UsagePatterns({"zlib"}) : u.usage_contexts = <<>>})
    \/ GetUsagePatterns

SpecUsage == Init /\ [][NextUsage]_vars

\* Every writing operation, each with a few inputs (one of them a package
\* whose dependency list names a dependency twice).
NextWrites ==
    \/ Initialize({"tool_absent", "update_ok"}, {1}, {0})
    \/ Execute(Statements({1}))
    \/ Close
    \/ InsertPackage(FewPackages(PackageNames)
                     \cup {p \in Packages({"curl"}) :
                              /\ p.version = "1.0.0"
                              /\ p.dependencies = <<"libc", "libc">>
                              /\ p.tags = <<>>})
    \/ UpdateUsagePattern({u \in UsagePatterns({"zlib"}) :
                              u.usage_contexts = <<"development">>})
    \/ AddRecommendation({r \in Recommendations({"zlib"}) :
                              r.source = "ai" /\ r.timestamp = 1 /\ r.metadata = EmptyDict})
    \/ RecordInstallation({r \in InstallationRecords({"zlib"}) :
                              r.success /\ r.timestamp = 1})

SpecWrites == Init /\ [][NextWrites]_vars

\* Filters: recommendations of a named source and of the empty source,
\* installation records of a named package and of the empty name, read with
\* every limit, without filter, with the empty filter and with a name.
NextFilters ==
    \/ Initialize({"tool_absent"}, {1}, {0})
    \/ Close
    \/ AddRecommendation({Recommendation("curl", "0.95", "Test recommendation",
                                         "development", 1, src, EmptyDict) :
                             src \in {"ai", ""}})
    \/ RecordInstallation({r \in InstallationRecords({"curl", ""}) :
                              r.success /\ r.timestamp = 1})
    \/ GetRecommendations(Limits, {None, "", "ai"})
    \/ GetInstallationHistory(Limits, {None, "", "curl"})

SpecFilters == Init /\ [][NextFilters]_vars

\* Transactions: every writing operation with an input that succeeds, the
\* two upserts also with inputs that fail at a child row (a dependency, a tag
\* or a context named twice).
NextTransactions ==
    \/ Initialize({"tool_absent", "update_ok"}, {1}, {0})
    \/ Execute(Statements({1}))
    \/ Close
    \/ InsertPackage(FewPackages({"curl"})
                     \cup {p \in Packages({"curl"}) :
                              /\ p.version = "1.1.0"
                              /\ \/ p.dependencies = <<"libc", "libc">>
                                    /\ p.tags = <<"network">>
                                 \/ p.dependencies = <<"libc">>
                                    /\ p.tags = <<"network", "network">>})
    \/ UpdateUsagePattern({u \in UsagePatterns({"curl"}) :
                              /\ u.frequency = 20
                              /\ u.usage_contexts \in
                                     {<<"production">>,
                                      <<"development", "development">>}})
    \/ AddRecommendation({r \in Recommendations({"zlib"}) :
                              r.source = "ai" /\ r.timestamp = 1 /\ r.metadata = EmptyDict})
    \/ RecordInstallation({r \in InstallationRecords({"zlib"}) :
                              r.success /\ r.timestamp = 1})

SpecTransactions == Init /\ [][NextTransactions]_vars

\* Recommendations: every recommendation of the model under one package
\* name, read with every limit and every source filter.
NextRecommendations ==
    \/ Initialize({"tool_absent", "update_ok"}, {1}, {0})
    \/ Close
    \/ AddRecommendation(Recommendations({"curl"}))
    \/ GetRecommendations(Limits, SourceFilters)

SpecRecommendations == Init /\ [][NextRecommendations]_vars

\* Installation history: every record of the model, read with every limit
\* and every package filter.
NextHistory ==
    \/ Initialize({"tool_absent", "update_ok"}, {1}, {0})
    \/ Close
    \/ RecordInstallation(InstallationRecords(PackageNames))
    \/ GetInstallationHistory(Limits, PackageFilters)

SpecHistory == Init /\ [][NextHistory]_vars

\* Both logs side by side, each added to with a few inputs and read with
\* every limit and every filter.
NextLogs ==
    \/ Initialize({"tool_absent"}, {1}, {0})
    \/ Close
    \/ AddRecommendation({r \in Recommendations({"curl"}) : r.metadata = EmptyDict})
    \/ RecordInstallation({r \in InstallationRecords({"curl"}) : r.success})
    \/ GetRecommendations(Limits, SourceFilters)
    \/ GetInstallationHistory(Limits, PackageFilters)

SpecLogs == Init /\ [][NextLogs]_vars

\* The entity operations together: upserts (one of them failing), adds,
\* reads, initialize and close, each with a few inputs.
NextEntities ==
    \/ Initialize({"tool_absent", "update_ok"}, {1}, {0})
    \/ Close
    \/ InsertPackage({p \in Packages({"curl"}) :
                         /\ p.version = "1.0.0"
                         /\ p.dependencies \in {<<"libc">>, <<"libc", "libc">>}
                         /\ p.tags = <<>>})
    \/ UpdateUsagePattern({u \in UsagePatterns({"curl"}) :
                              u.frequency = 10 /\ u.usage_contexts = <<"development">>})
    \/ AddRecommendation({r \in Recommendations({"curl"}) :
                              r.timestamp = 1 /\ r.metadata = EmptyDict})
    \/ RecordInstallation({r \in InstallationRecords({"curl"}) : r.timestamp = 1})
    \/ GetPackageByName({"curl"})
    \/ GetInstalledPackages
    \/ GetUsagePatterns
    \/ GetRecommendations({1}, {None})
    \/ GetInstallationHistory({1}, {None})

SpecEntities == Init /\ [][NextEntities]_vars

\* Stored metadata overwritten with malformed text, and every read that
\* decodes metadata.
NextMetadata ==
    \/ Initialize({"tool_absent"}, {1}, {0})
    \/ Close
    \/ InsertPackage({p \in FewPackages({"curl"}) : p.metadata # EmptyDict})
    \/ UpdateUsagePattern({u \in UsagePatterns({"curl"}) :
                              u.frequency = 20 /\ u.usage_contexts = <<"development">>})
    \/ AddRecommendation({r \in Recommendations({"curl"}) :
                              /\ r.timestamp = 1 /\ r.source = "ai"
                              /\ r.metadata # EmptyDict})
    \/ Execute(MetadataStatements(MalformedTexts))
    \/ GetPackageByName({"curl"})
    \/ GetInstalledPackages
    \/ GetUsagePatterns
    \/ GetRecommendations({MaxLog}, {None})

SpecMetadata == Init /\ [][NextMetadata]_vars

\* The entity models alone: from_dict of every class on every mapping.
NextModels == FromDict(EntityClasses)

SpecModels == Init /\ [][NextModels]_vars

----------------------------------------------------------------------------
(* Properties *)

\* A Package read back equals the Package handed over, field by field
\* (dependencies and tags as sets).
SamePackage(q, p) ==
    /\ q.name = p.name
    /\ q.version = p.version
    /\ q.description = p.description
    /\ q.installed_date = p.installed_date
    /\ q.source = p.source
    /\ q.size = p.size
    /\ q.dependencies = Range(p.dependencies)
    /\ q.tags = Range(p.tags)
    /\ q.metadata = p.metadata

\* C1: round trip. Whenever insert_package(p) has just returned,
\* get_package_by_name(p.name) returns a package equal to p in every field,
\* also for p with empty dependencies, tags or metadata.
PackageRoundTrip ==
    (last.op = "insert_package" /\ last.raised = "") =>
        LET got == get_package_by_name(Current, last.arg.name)
        IN  /\ got.raised = ""
            /\ got.ret # PyNone
            /\ SamePackage(got.ret, last.arg)

\* C2: replace, not merge. Whenever insert_package(p) has just returned, the
\* dependency rows stored for p.name are exactly p's dependencies and the tag
\* rows exactly p's tags, whatever was stored for the name before.
ChildRowsReplaced ==
    (last.op = "insert_package" /\ last.raised = "") =>
        /\ child_values(work, "package_dependencies", last.arg.name)
               = Range(last.arg.dependencies)
        /\ child_values(work, "package_tags", last.arg.name)
               = Range(last.arg.tags)

\* C3: re-saving a usage pattern replaces it. Whenever update_usage_pattern(u)
\* has just returned, get_usage_patterns holds exactly one pattern for
\* u.package_name, with u's frequency, last_used and importance_score and with
\* exactly u's usage contexts.
UsagePatternReplaced ==
    (last.op = "update_usage_pattern" /\ last.raised = "") =>
        LET got == get_usage_patterns(Current)
            mine == {i \in DOMAIN got.ret :
                        got.ret[i].package_name = last.arg.package_name}
        IN  /\ got.raised = ""
            /\ Cardinality(mine) = 1
            /\ \A i \in mine :
                  /\ got.ret[i].frequency = last.arg.frequency
                  /\ got.ret[i].last_used = last.arg.last_used
                  /\ got.ret[i].importance_score = last.arg.importance_score
                  /\ got.ret[i].usage_contexts = Range(last.arg.usage_contexts)

\* Everything the connection sees except the packages row, the dependency rows
\* and the tag rows of `name`.
RowsOutside(d, name) ==
    [d EXCEPT !.packages = {x \in @ : x.name # name},
              !.package_dependencies = {x \in @ : x.package_name # name},
              !.package_tags = {x \in @ : x.package_name # name}]

PackageNameUnique ==
    /\ \A d \in {db_file, work} :
          \A x, y \in d.packages : x.name = y.name => x = y
    /\ LET got == get_installed_packages(Current)
       IN  got.raised = "" =>
               \A n \in upserted :
                   Cardinality({i \in DOMAIN got.ret : got.ret[i].name = n}) = 1

\* Witness of C5: insert_package has returned for a name that was stored
\* before (tags of the earlier save are still there), a second name is stored
\* too, and get_installed_packages returns two packages.
PackageNameUniqueWitness ==
    /\ last.op = "insert_package" /\ last.raised = ""
    /\ last.arg.tags = <<>>
    /\ child_values(work, "package_tags", last.arg.name) # {}
    /\ upserted = PackageNames
    /\ Len(get_installed_packages(Current).ret) = 2

\* C6: on a fresh store, get_database_version() is at least 1 right after
\* initialize() has returned, whichever migration path ran.
VersionAfterInitialize ==
    (last.op = "initialize" /\ last.raised = "" /\ last.arg.fresh) =>
        LET got == get_database_version(Current)
        IN  /\ got.raised = ""
            /\ got.ret.type = "int"
            /\ got.ret.val >= 1

\* C7: get_database_version() on a store without the version table returns 0
\* and raises nothing.
VersionZeroWithoutTable ==
    (last.op = "get_database_version" /\ "database_version" \notin work.tables) =>
        /\ last.raised = ""
        /\ last.ret = PyInt(0)

\* Witnesses of C7: get_database_version() was called on a store without any
\* table (before initialize), and on one the tool has set up.
VersionZeroWithoutTableWitness ==
    /\ last.op = "get_database_version"
    /\ "database_version" \notin work.tables
    /\ work.tables = SevenTables

\* C8: get_database_version() on a store whose version table exists returns
\* the integer 0 when the table holds no row and the highest version when it
\* holds rows.
VersionOfTable ==
    (last.op = "get_database_version" /\ "database_version" \in work.tables) =>
        /\ last.raised = ""
        /\ last.ret = IF work.database_version = {} THEN PyInt(0)
                      ELSE PyInt(SetMax({x.version : x \in work.database_version}))

\* The rows of the entity tables.
EntityRows(d) == [d EXCEPT !.tables = {}, !.database_version = {}]

\* C9: initialize() is idempotent. A call of initialize() on a store that was
\* initialized before raises nothing, leaves exactly one bootstrap row
\* (version 1) in the version table and leaves every entity row unchanged.
InitializeIdempotent ==
    [][(last'.op = "initialize" /\ db_file # EmptyDatabase) =>
           /\ last'.raised = ""
           /\ "database_version" \in work'.tables
           /\ Cardinality({x \in work'.database_version : x.version = 1}) = 1
           /\ EntityRows(work') = EntityRows(work)]_vars

\* Exceptions the external tool's invocation raises.
ToolExceptions ==
    {"FileNotFoundError", "CalledProcessError", "PermissionError", "OSError"}

\* C10: initialize() never fails because of the external tool. Whatever went
\* wrong with the tool (absent, probe failed, changelog directory or file
\* missing, update exited non-zero, unexpected exception), no exception of the
\* tool reaches the caller and the manual fallback has run: the eight tables
\* and the bootstrap row are committed.
ToolFailureFallsBack ==
    (last.op = "initialize" /\ last.arg.tool # "update_ok") =>
        /\ last.raised \notin ToolExceptions
        /\ last.raised = "" =>
              /\ Range(ManualTables) \subseteq db_file.tables
              /\ \E x \in db_file.database_version : x.version = 1
              /\ ~in_transaction

\* Witness of C10: initialize() on a fresh store has returned after the
\* invocation of the tool's update raised an unexpected exception.
ToolFailureFallsBackWitness ==
    /\ last.op = "initialize" /\ last.raised = ""
    /\ last.arg.tool = "update_error" /\ last.arg.fresh
    /\ \E x \in db_file.database_version : x.version = 1

\* C11: the schema after initialize(). Whenever initialize() has returned
\* normally, by the tool path or by the manual fallback, each of the seven
\* entity tables exists, durably and for the connection, and a query of it
\* raises nothing.
SchemaAfterInitialize ==
    (last.op = "initialize" /\ last.raised = "") =>
        /\ SevenTables \subseteq db_file.tables
        /\ \A t \in SevenTables : query(Current, t).raised = ""

\* Witness of C11: initialize() has returned on a fresh store after the
\* tool's update failed in the middle and the manual fallback ran.
SchemaAfterInitializeWitness ==
    /\ last.op = "initialize" /\ last.raised = ""
    /\ last.arg.tool = "update_partial" /\ last.arg.fresh
    /\ \A t \in SevenTables : query(Current, t).raised = ""

\* C12: the schema is never left partially created. Whenever initialize()
\* ends, normally or with an error, either all entity tables exist or the
\* file holds no table that it did not hold before the call.
SchemaNeverPartial ==
    [][(last'.op = "initialize") =>
           \/ SevenTables \subseteq db_file'.tables
           \/ db_file'.tables = db_file.tables]_vars

\* C13: a failure of the manual fallback is fatal. When the store fails a
\* statement of the manual fallback, initialize() raises that error to its
\* caller and runs no later statement: the tables from the failing CREATE
\* TABLE on, unless they were there when the fallback began, are not created
\* and no bootstrap row is committed.
ManualFailurePropagates ==
    [][(last'.op = "initialize" /\ last'.arg.tool # "update_ok"
                                /\ last'.arg.fault # 0) =>
           LET tool == run_liquibase_update(Current, last'.arg.tool).st
           IN  /\ last'.raised = "OperationalError"
               /\ db_file'.database_version = db_file.database_version
               /\ \A i \in CreateFaults :
                      (i >= last'.arg.fault /\ ManualTables[i] \notin tool.work.tables)
                          => ManualTables[i] \notin work'.tables]_vars

\* Witness of C13: initialize() on a fresh store has raised the error of the
\* CREATE TABLE of usage_patterns, the tables before it being created.
ManualFailurePropagatesWitness ==
    /\ last.op = "initialize" /\ last.raised = "OperationalError"
    /\ last.arg.fresh /\ last.arg.tool = "tool_absent"
    /\ last.arg.fault \in CreateFaults
    /\ "package_tags" \in db_file.tables
    /\ "usage_patterns" \notin db_file.tables

\* A sequence of entities in descending timestamp order.
NewestFirst(got) ==
    \A i, j \in DOMAIN got : i < j => got[i].timestamp >= got[j].timestamp

\* C14: recommendations by source. get_recommendations with a source filter s
\* returns only recommendations whose source equals s, newest first, and none
\* of another source; without a filter and with a limit that covers the
\* table it returns the recommendations of all sources, newest first.
RecommendationsBySource ==
    (last.op = "get_recommendations" /\ last.raised = "") =>
        /\ NewestFirst(last.ret)
        /\ last.arg.source # None =>
               \A i \in DOMAIN last.ret : last.ret[i].source = last.arg.source
        /\ (last.arg.source = None
                /\ last.arg.limit >= Cardinality(work.recommendations)) =>
               \A x \in work.recommendations :
                   \E i \in DOMAIN last.ret : last.ret[i].source = x.row.source

Min(a, b) == IF a <= b THEN a ELSE b

\* The rows the query of a filtered read selects: those whose column equals
\* the filter, all rows when the read takes the argument as no filter.
Selected(rows, column, filter) ==
    IF filter \in {None, ""} THEN rows ELSE {x \in rows : x.row[column] = filter}

\* `got` holds the Min(limit, n) newest of the n rows: as many entities at or
\* after every instant as the rows have, up to limit, each built from a row.
NewestOf(got, rows, limit) ==
    /\ Len(got) = Min(limit, Cardinality(rows))
    /\ NewestFirst(got)
    /\ \A t \in Times :
          Cardinality({i \in DOMAIN got : got[i].timestamp >= t})
              = Min(limit, Cardinality({x \in rows : x.row.timestamp >= t}))
    /\ \A i \in DOMAIN got : \E x \in rows :
          /\ got[i].timestamp = x.row.timestamp
          /\ got[i].package_name = x.row.package_name

\* C15: the limit. get_recommendations and get_installation_history return
\* the min(limit, n) newest of the n rows their query selects; with limit 0
\* they return the empty sequence and raise nothing.
LimitNewest ==
    /\ (last.op = "get_recommendations"
            /\ "recommendations" \in work.tables) =>
           /\ last.raised = ""
           /\ NewestOf(last.ret,
                       Selected(work.recommendations, "source", last.arg.source),
                       last.arg.limit)
           /\ last.arg.limit = 0 => last.ret = <<>>
    /\ (last.op = "get_installation_history"
            /\ "installation_history" \in work.tables) =>
           /\ last.raised = ""
           /\ NewestOf(last.ret,
                       Selected(work.installation_history, "package_name",
                                last.arg.package_name),
                       last.arg.limit)
           /\ last.arg.limit = 0 => last.ret = <<>>

\* Witness of C15 on the recommendations: a read with a limit below the
\* number of rows of the source has returned the newest of rows of different
\* timestamps.
LimitNewestWitness ==
    /\ last.op = "get_recommendations" /\ last.raised = ""
    /\ last.arg.source = "ai" /\ last.arg.limit = 1
    /\ Len(last.ret) = 1
    /\ \E x \in work.recommendations :
          x.row.source = "ai" /\ x.row.timestamp < last.ret[1].timestamp

\* C16: installation history. get_installation_history returns the records
\* newest first; with a package filter only records of that package name;
\* with limit 1 on a store holding two records of one package, exactly one
\* record, which has the later timestamp.
HistoryNewestFirst ==
    (last.op = "get_installation_history" /\ last.raised = "") =>
        /\ NewestFirst(last.ret)
        /\ last.arg.package_name # None =>
               \A i \in DOMAIN last.ret :
                   last.ret[i].package_name = last.arg.package_name
        /\ (last.arg.limit = 1
                /\ Cardinality(work.installation_history) = 2
                /\ last.arg.package_name \in {None, "curl"}
                /\ \A x \in work.installation_history :
                       x.row.package_name = "curl") =>
               /\ Len(last.ret) = 1
               /\ \A x \in work.installation_history :
                      x.row.timestamp <= last.ret[1].timestamp

\* C17: get_usage_patterns returns every stored usage pattern exactly once,
\* in non-increasing order of frequency, each with exactly the usage contexts
\* stored for its package name.
UsagePatternsListed ==
    (last.op = "get_usage_patterns" /\ last.raised = "") =>
        /\ Len(last.ret) = Cardinality(work.usage_patterns)
        /\ \A x \in work.usage_patterns :
              Cardinality({i \in DOMAIN last.ret :
                              /\ last.ret[i].package_name = x.package_name
                              /\ last.ret[i].frequency = x.frequency
                              /\ last.ret[i].importance_score = x.importance_score}) = 1
        /\ \A i, j \in DOMAIN last.ret :
              i < j => last.ret[i].frequency >= last.ret[j].frequency
        /\ \A i \in DOMAIN last.ret :
              last.ret[i].usage_contexts =
                  {c.value : c \in {y \in work.usage_contexts :
                                       y.package_name = last.ret[i].package_name}}

\* Witness of C17: get_usage_patterns has returned two patterns of different
\* frequency, the first of them with two usage contexts.
UsagePatternsListedWitness ==
    /\ last.op = "get_usage_patterns" /\ last.raised = ""
    /\ Len(last.ret) = 2
    /\ last.ret[1].frequency > last.ret[2].frequency
    /\ Cardinality(last.ret[1].usage_contexts) = 2

LogTables == {"recommendations", "installation_history"}

\* C18: the logs are append-only. No step of an entity operation (upsert,
\* add, read, initialize, close) modifies or removes a row of recommendations
\* or installation_history, for the connection or in the file; an
\* add_recommendation or record_installation that returns adds exactly one
\* row to its table and none to the other.
LogsAppendOnly ==
    [][/\ \A t \in LogTables :
             /\ work[t] \subseteq work'[t]
             /\ db_file[t] \subseteq db_file'[t]
       /\ (last'.op = "add_recommendation" /\ last'.raised = "") =>
             /\ Cardinality(db_file'.recommendations)
                    = Cardinality(db_file.recommendations) + 1
             /\ Cardinality(work'.recommendations)
                    = Cardinality(work.recommendations) + 1
             /\ work'.installation_history = work.installation_history
       /\ (last'.op = "record_installation" /\ last'.raised = "") =>
             /\ Cardinality(db_file'.installation_history)
                    = Cardinality(db_file.installation_history) + 1
             /\ Cardinality(work'.installation_history)
                    = Cardinality(work.installation_history) + 1
             /\ work'.recommendations = work.recommendations]_vars

\* Witness of C18: a recommendation equal in every field to one already
\* stored has been added while a failed upsert had left its transaction
\* open, and an installation record is stored.
LogsAppendOnlyWitness ==
    /\ last.op = "add_recommendation" /\ last.raised = ""
    /\ \E x, y \in db_file.recommendations : x.id # y.id /\ x.row = y.row
    /\ db_file.installation_history # {}
    /\ Cardinality(db_file.package_dependencies) = 1
    /\ upserted = {}

\* Stored metadata text that cannot be decoded.
Malformed(text) == text # None /\ json_loads(text) \notin Dicts

\* C19: malformed stored metadata never makes a read fail. Whenever
\* get_package_by_name, get_installed_packages, get_usage_patterns or
\* get_recommendations has run on a store whose tables exist, it has raised
\* nothing and has returned every entity, those whose stored metadata text
\* cannot be decoded with the empty map as metadata.
MalformedMetadataTolerated ==
    /\ (last.op = "get_package_by_name" /\ SevenTables \subseteq work.tables) =>
           /\ last.raised = ""
           /\ \A x \in work.packages :
                  (x.name = last.arg.name /\ Malformed(x.metadata)) =>
                      /\ last.ret # PyNone
                      /\ last.ret.metadata = EmptyDict
    /\ (last.op = "get_installed_packages" /\ SevenTables \subseteq work.tables) =>
           /\ last.raised = ""
           /\ \A x \in work.packages : Malformed(x.metadata) =>
                  \E i \in DOMAIN last.ret :
                      /\ last.ret[i].name = x.name
                      /\ last.ret[i].metadata = EmptyDict
    /\ (last.op = "get_usage_patterns" /\ SevenTables \subseteq work.tables) =>
           /\ last.raised = ""
           /\ \A x \in work.usage_patterns : Malformed(x.metadata) =>
                  \E i \in DOMAIN last.ret :
                      /\ last.ret[i].package_name = x.package_name
                      /\ last.ret[i].metadata = EmptyDict
    /\ (last.op = "get_recommendations" /\ SevenTables \subseteq work.tables) =>
           /\ last.raised = ""
           /\ Len(last.ret) = Min(last.arg.limit, Cardinality(work.recommendations))
           /\ LET rows == order_by_timestamp_desc(work.recommendations)
              IN  \A i \in DOMAIN last.ret :
                      Malformed(rows[i].row.metadata) =>
                          last.ret[i].metadata = EmptyDict

\* The mandatory fields of each entity.
MandatoryFields(cls) ==
    CASE cls = "Package" -> {"name", "version"}
      [] cls = "UsagePattern" -> {"package_name", "frequency", "last_used"}
      [] cls = "Recommendation" ->
           {"package_name", "score", "reason", "category", "timestamp", "source"}
      [] cls = "InstallationRecord" ->
           {"package_name", "operation", "timestamp", "success"}

\* C20: from_dict validates the mandatory fields. from_dict of a mapping that
\* lacks a mandatory field raises the error of the missing key, which names
\* a mandatory field the mapping lacks; from_dict of a mapping that has all
\* mandatory fields raises nothing, whichever optional fields are absent, and
\* builds the entity with the mandatory values of the mapping.
FromDictValidates ==
    (last.op = "from_dict") =>
        LET missing == MandatoryFields(last.arg.cls) \ DOMAIN last.arg.data
        IN  /\ missing # {} =>
                  /\ last.raised = "KeyError"
                  /\ last.args \in missing
            /\ missing = {} =>
                  /\ last.raised = ""
                  /\ \A k \in MandatoryFields(last.arg.cls) :
                         last.ret[k] = last.arg.data[k]

\* Witness of C20: Recommendation.from_dict has raised for a mapping that
\* lacks the timestamp (and the optional metadata), naming the timestamp.
FromDictValidatesWitness ==
    /\ last.op = "from_dict" /\ last.arg.cls = "Recommendation"
    /\ DOMAIN last.arg.data =
           {"package_name", "score", "reason", "category", "source"}
    /\ last.raised = "KeyError" /\ last.args = "timestamp"

\* C21: close() is idempotent and always safe. A call of close() never
\* raises and leaves the gateway without a connection and without an open
\* connection of its own, whether a connection was open, had been closed
\* before, or was never opened; and a close() right after it raises nothing
\* and changes nothing.
CloseIdempotent ==
    (last.op = "close") =>
        /\ last.raised = ""
        /\ conn = None
        /\ connections = 0
        /\ close(Current) = Returns(Current, PyNone)

\* Witness of C21: close() has returned on a gateway that never opened a
\* connection.
CloseIdempotentWitness ==
    /\ last.op = "close" /\ last.raised = ""
    /\ ~connected /\ conn = None

\* The calls that need the store: all but close(), from_dict and an
\* initialize() that the migration tool completes.
NeedsConnection(call) ==
    /\ call.op \notin {"__init__", "close", "from_dict"}
    /\ ~(call.op = "initialize" /\ call.arg.tool = "update_ok")

\* C22 as stated: the gateway holds one connection for its lifetime.
\* Construction opens none, the first call that needs the store opens the
\* connection, never are two open, and once a connection has been opened no
\* call opens another.
OneConnectionForLifetime ==
    [][/\ ~connected => (conn = None /\ connections = 0)
       /\ (~connected /\ NeedsConnection(last')) =>
              (conn' # None /\ connections' = 1)
       /\ connections' <= 1
       /\ connected => connections' <= connections]_vars

\* C22 as amended: the gateway holds at most one connection at a time.
\* Construction opens none; a call that needs the store opens a connection
\* when the gateway holds none (the first such call, and the first after a
\* close()); every other call but close() keeps the connection the gateway
\* holds and opens none; never are two open.
OneConnectionAtATime ==
    [][/\ ~connected => (conn = None /\ connections = 0)
       /\ (conn = None /\ NeedsConnection(last')) =>
              (conn' # None /\ connections' = 1)
       /\ (conn # None /\ last'.op # "close") =>
              (conn' = conn /\ connections' = connections)
       /\ connections' <= 1
       /\ (conn' = None) <=> (connections' = 0)]_vars

\* Witness of C22: the gateway has opened a connection and released it with
\* close(); the next call that needs the store opens another.
OneConnectionAtATimeWitness ==
    /\ last.op = "close" /\ connected
    /\ conn = None /\ connections = 0
    /\ NeedsConnection([op |-> "get_database_version", arg |-> NoArg])
    /\ get_database_version(Current).st.connections = 1

\* The calls that write: the operations that change rows, and an
\* initialize() that runs the manual fallback.
Mutating(call) ==
    \/ call.op \in {"execute", "insert_package", "update_usage_pattern",
                    "add_recommendation", "record_installation"}
    \/ call.op = "initialize" /\ call.arg.tool # "update_ok"

\* C23: every mutating operation commits before it returns. After a normal
\* return of execute, insert_package, update_usage_pattern,
\* add_recommendation, record_installation or an initialize() that ran the
\* manual fallback, the connection has no open transaction, the file holds
\* exactly what the connection sees, and what the operation wrote is in the
\* file.
CommitsBeforeReturn ==
    (Mutating(last) /\ last.raised = "") =>
        /\ ~in_transaction
        /\ work = db_file
        /\ last.op = "insert_package" =>
               /\ \E x \in db_file.packages :
                      x.name = last.arg.name /\ x.version = last.arg.version
               /\ last.arg.dependencies # <<>> =>
                      child_values(db_file, "package_dependencies", last.arg.name)
                          = Range(last.arg.dependencies)
               /\ last.arg.tags # <<>> =>
                      child_values(db_file, "package_tags", last.arg.name)
                          = Range(last.arg.tags)
        /\ last.op = "update_usage_pattern" =>
               /\ \E x \in db_file.usage_patterns :
                      /\ x.package_name = last.arg.package_name
                      /\ x.frequency = last.arg.frequency
               /\ last.arg.usage_contexts # <<>> =>
                      child_values(db_file, "usage_contexts", last.arg.package_name)
                          = Range(last.arg.usage_contexts)
        /\ last.op = "add_recommendation" =>
               \E x \in db_file.recommendations :
                   /\ x.row.package_name = last.arg.package_name
                   /\ x.row.timestamp = last.arg.timestamp
        /\ last.op = "record_installation" =>
               \E x \in db_file.installation_history :
                   /\ x.row.package_name = last.arg.package_name
                   /\ x.row.timestamp = last.arg.timestamp
        /\ last.op = "execute" =>
               IF last.arg.params = <<>>
               THEN db_file.database_version = {}
               ELSE \E x \in db_file.database_version :
                        x.version = last.arg.params[1]
        /\ last.op = "initialize" =>
               /\ Range(ManualTables) \subseteq db_file.tables
               /\ db_file.database_version # {}

\* Witness of C23: an upsert has returned on a connection that held the
\* uncommitted rows of a failed one before, and nothing is uncommitted.
CommitsBeforeReturnWitness ==
    /\ last.op = "insert_package" /\ last.raised = ""
    /\ last.arg.dependencies = <<"openssl">>
    /\ \E u \in db_file.usage_patterns : u.package_name = "curl"
    /\ child_values(db_file, "usage_contexts", "curl") = {"development"}
    /\ ~in_transaction /\ work = db_file

\* C24: absent optional data reads back as the documented default. Whenever
\* a package, a usage pattern or a recommendation with an empty metadata map
\* has just been saved, the read of it returns the empty map as its
\* metadata; and whenever a package without dependencies and tags has just
\* been saved, the read of it returns empty dependencies and tags.
AbsentOptionalDefaults ==
    /\ (last.op = "insert_package" /\ last.raised = "") =>
           LET got == get_package_by_name(Current, last.arg.name)
           IN  /\ got.raised = "" /\ got.ret # PyNone
               /\ last.arg.metadata = EmptyDict => got.ret.metadata = EmptyDict
               /\ (last.arg.dependencies = <<>> /\ last.arg.tags = <<>>) =>
                      (got.ret.dependencies = {} /\ got.ret.tags = {})
    /\ (last.op = "update_usage_pattern" /\ last.raised = ""
            /\ last.arg.metadata = EmptyDict) =>
           LET got == get_usage_patterns(Current)
           IN  /\ got.raised = ""
               /\ \A i \in DOMAIN got.ret :
                      got.ret[i].package_name = last.arg.package_name =>
                          got.ret[i].metadata = EmptyDict
    /\ (last.op = "add_recommendation" /\ last.raised = ""
            /\ last.arg.metadata = EmptyDict) =>
           LET got == get_recommendations(Current, MaxLog, None)
           IN  /\ got.raised = ""
               /\ \A i \in DOMAIN got.ret :
                      (/\ got.ret[i].package_name = last.arg.package_name
                       /\ got.ret[i].timestamp = last.arg.timestamp) =>
                          got.ret[i].metadata = EmptyDict

\* The place of a step in the migration protocol.
ProtocolOrder(name) ==
    CASE name = "probe" -> 1
      [] name = "changelog" -> 2
      [] name = "update" -> 3
      [] name = "manual" -> 4

\* The tool outcomes in which the probe succeeds, and those in which the
\* changelog is found as well.
ProbeSucceeds == ToolOutcomes \ {"tool_absent", "probe_fails", "probe_error"}
ChangelogFound == ProbeSucceeds \ {"no_migrations_dir", "no_changelog"}

\* C25: migration protocol order. The steps of one initialize() run in the
\* order probe, changelog, update, manual fallback, each at most once
\* (nothing is retried), starting with the probe; the update runs exactly
\* when the probe succeeded and the changelog exists; the manual fallback
\* runs exactly when the tool did not report success, also when the fallback
\* itself fails; and an initialize() that the tool completes returns without
\* touching the version rows or the gateway's connection.
MigrationProtocolOrder ==
    [][(last'.op = "initialize") =>
           LET steps == last'.steps
               tool == last'.arg.tool
           IN  /\ steps # <<>> /\ steps[1] = "probe"
               /\ \A i, j \in DOMAIN steps :
                      i < j => ProtocolOrder(steps[i]) < ProtocolOrder(steps[j])
               /\ ("changelog" \in Range(steps)) <=> (tool \in ProbeSucceeds)
               /\ ("update" \in Range(steps)) <=> (tool \in ChangelogFound)
               /\ ("manual" \in Range(steps)) <=> (tool # "update_ok")
               /\ tool = "update_ok" =>
                      /\ last'.raised = ""
                      /\ db_file'.database_version = db_file.database_version
                      /\ work'.database_version = work.database_version
                      /\ conn' = conn /\ in_transaction' = in_transaction
               /\ (tool # "update_ok" /\ last'.arg.fault = 0) =>
                      /\ last'.raised = ""
                      /\ \E v \in db_file'.database_version : v.version = 1]_vars

\* Witness of C25: an initialize() has run all four steps, the update having
\* failed, and its manual fallback has failed too.
MigrationProtocolOrderWitness ==
    /\ last.op = "initialize"
    /\ last.arg.tool = "update_nonzero"
    /\ last.steps = <<"probe", "changelog", "update", "manual">>
    /\ last.raised = "OperationalError"

\* The items of a list before the first one that repeats an earlier item.
BeforeRepeat(seq) ==
    LET repeats == {i \in DOMAIN seq : \E j \in 1..(i - 1) : seq[j] = seq[i]}
    IN  IF repeats = {} THEN seq
        ELSE SubSeq(seq, 1, (CHOOSE i \in repeats : \A k \in repeats : i <= k) - 1)

\* C26: partial failure of an upsert. An insert_package whose dependency or
\* tag list names an item twice raises the store's IntegrityError on a store
\* that has the tables; and whenever insert_package has raised it, nothing is
\* rolled back and nothing committed: the file is as before, the transaction
\* is open, and a read on the same gateway returns the new package row with
\* the child rows inserted before the failing one (the dependencies before
\* the repeated one and the tags as they were; or the dependencies of the
\* package, those stored before when it lists none, and the tags before the
\* repeated one).
PartialUpsertVisible ==
    [][(last'.op = "insert_package") =>
           LET p == last'.arg
               after == [db_file |-> db_file', conn |-> conn',
                         in_transaction |-> in_transaction', work |-> work',
                         connections |-> connections', steps |-> <<>>]
               got == get_package_by_name(after, p.name)
               deps_fail == BeforeRepeat(p.dependencies) # p.dependencies
               tags_fail == BeforeRepeat(p.tags) # p.tags
           IN  /\ (Range(ManualTables) \subseteq work'.tables
                       /\ (deps_fail \/ tags_fail)) =>
                      last'.raised = "IntegrityError"
               /\ last'.raised = "IntegrityError" =>
                      /\ deps_fail \/ tags_fail
                      /\ db_file' = db_file
                      /\ in_transaction'
                      /\ got.raised = "" /\ got.ret # PyNone
                      /\ got.ret.version = p.version
                      /\ got.ret.description = p.description
                      /\ got.ret.source = p.source
                      /\ IF deps_fail
                         THEN /\ got.ret.dependencies =
                                     Range(BeforeRepeat(p.dependencies))
                              /\ got.ret.tags =
                                     child_values(work, "package_tags", p.name)
                         ELSE /\ got.ret.dependencies =
                                     IF p.dependencies = <<>>
                                     THEN child_values(work, "package_dependencies",
                                                       p.name)
                                     ELSE Range(p.dependencies)
                              /\ got.ret.tags = Range(BeforeRepeat(p.tags))]_vars

\* Witness of C26: an upsert of a package with a tag has failed at its
\* repeated dependency; the gateway reads the new row with the one
\* dependency and without the tag, and the file has no such package.
PartialUpsertVisibleWitness ==
    /\ last.op = "insert_package" /\ last.raised = "IntegrityError"
    /\ last.arg.dependencies = <<"libc", "libc">>
    /\ last.arg.tags = <<"network">>
    /\ db_file.packages = {}
    /\ LET got == get_package_by_name(Current, last.arg.name)
       IN  /\ got.ret # PyNone
           /\ got.ret.version = last.arg.version
           /\ got.ret.dependencies = {"libc"}
           /\ got.ret.tags = {}

\* Every child row of database d has its parent row.
ChildrenHaveParents(d) ==
    /\ \A x \in d.package_dependencies \cup d.package_tags :
           \E p \in d.packages : p.name = x.package_name
    /\ \A x \in d.usage_contexts :
           \E u \in d.usage_patterns : u.package_name = x.package_name

\* C27: child rows never outlive or precede their parent. After any sequence
\* of entity operations, in the file and in what the connection sees, every
\* package_dependencies row and every package_tags row has a packages row of
\* its package name, and every usage_contexts row a usage_patterns row.
ChildRowsHaveParent ==
    /\ ChildrenHaveParents(work)
    /\ ChildrenHaveParents(db_file)

\* Witness of C27: the connection sees a dependency row and a context row
\* left by upserts, the dependency row by one that failed after its parent
\* row and first child row.
ChildRowsHaveParentWitness ==
    /\ last.op = "insert_package" /\ last.raised = "IntegrityError"
    /\ work.package_dependencies # {}
    /\ work.usage_contexts # {}
    /\ db_file.package_dependencies = {}

\* C28: a usage pattern can be saved only for a stored package.
\* update_usage_pattern returns normally only for a package name that has a
\* packages row, and every stored usage pattern has the packages row of its
\* package name, in the file and in what the connection sees.
UsagePatternNeedsPackage ==
    /\ (last.op = "update_usage_pattern" /\ last.raised = "") =>
           \E p \in work.packages : p.name = last.arg.package_name
    /\ \A d \in {work, db_file} :
           \A u \in d.usage_patterns :
               \E p \in d.packages : p.name = u.package_name

\* The tables of the packages and of the usage patterns.
PackageTables == {"packages", "package_dependencies", "package_tags"}
UsageTables == {"usage_patterns", "usage_contexts"}

\* The tables a call does not write.
Untouched(call) ==
    CASE call.op = "insert_package" -> UsageTables
      [] call.op = "update_usage_pattern" -> PackageTables
      [] OTHER -> PackageTables \cup UsageTables

\* C29: what a failed upsert leaves uncommitted. When insert_package or
\* update_usage_pattern has raised at a child row and left changes
\* uncommitted, a mutating operation that returns normally next makes them
\* durable with its own (the file then equals what the connection sees, and
\* in the tables that operation does not write it holds what the failed
\* upsert left), and a close() next discards them (the file stays as it was
\* and the connection's view is gone).
PendingChangesCommittedLater ==
    [][(/\ last.op \in {"insert_package", "update_usage_pattern"}
        /\ last.raised = "IntegrityError"
        /\ work # db_file) =>
           /\ in_transaction
           /\ (Mutating(last') /\ last'.raised = "") =>
                  /\ ~in_transaction'
                  /\ db_file' = work'
                  /\ \A t \in Untouched(last') : db_file'[t] = work[t]
           /\ last'.op = "close" =>
                  /\ last'.raised = ""
                  /\ db_file' = db_file
                  /\ work' = db_file
                  /\ ~in_transaction']_vars

\* Witness of C29: add_recommendation has committed what a failed upsert
\* left: the file holds the package with the one dependency inserted before
\* the repeated one and without the tag, which is neither the child set
\* stored before nor the one of the package that was being saved.
PendingChangesCommittedLaterWitness ==
    /\ last.op = "add_recommendation" /\ last.raised = ""
    /\ \E p \in db_file.packages : p.name = "curl" /\ p.version = "1.1.0"
    /\ child_values(db_file, "package_dependencies", "curl") = {"libc"}
    /\ child_values(db_file, "package_tags", "curl") = {}

\* C30: an empty-string filter is treated as no filter. get_recommendations
\* with source "" does what it does without a source: it returns the newest
\* recommendations of every source up to the limit, not only those stored
\* with the empty source; and get_installation_history with package_name ""
\* returns the newest records of every package up to the limit.
EmptyFilterIsNoFilter ==
    /\ (last.op = "get_recommendations" /\ last.arg.source = "") =>
           LET all == get_recommendations(Current, last.arg.limit, None)
           IN  /\ last.raised = all.raised
               /\ last.ret = all.ret
               /\ last.raised = "" =>
                      Len(last.ret) =
                          Min(last.arg.limit, Cardinality(work.recommendations))
    /\ (last.op = "get_installation_history" /\ last.arg.package_name = "") =>
           LET all == get_installation_history(Current, last.arg.limit, None)
           IN  /\ last.raised = all.raised
               /\ last.ret = all.ret
               /\ last.raised = "" =>
                      Len(last.ret) =
                          Min(last.arg.limit,
                              Cardinality(work.installation_history))

\* Witness of C30: get_recommendations with source "" has returned a
\* recommendation of the source ai and one stored with the empty source.
EmptyFilterIsNoFilterWitness ==
    /\ last.op = "get_recommendations" /\ last.arg.source = ""
    /\ last.raised = ""
    /\ \E i, j \in DOMAIN last.ret :
           last.ret[i].source = "ai" /\ last.ret[j].source = ""

====
